---------------------------- MODULE Spec2Model ----------------------------
(***************************************************************************)
(* Residence allocation and room-booking workflow of the student database  *)
(* API (express route handlers over a PostgreSQL store, through drizzle).  *)
(*                                                                         *)
(* The store is the tables rooms, residences and room_bookings; hostels    *)
(* and students are read-only here.  Every handler is an async function:   *)
(* each awaited statement is one autocommitted statement against the       *)
(* store, and requests interleave between statements.  A request is a      *)
(* process p with a program counter, its request parameters and the rows   *)
(* its statements returned.  The first statement of a handler runs in the  *)
(* step that accepts the request.                                          *)
(*                                                                         *)
(* Timestamps (allocatedAt, approvedAt, requestedAt), free text notes and  *)
(* the columns no handler of this subsystem reads are left out.            *)
(***************************************************************************)
EXTENDS Integers, Sequences, FiniteSets, TLC

VARIABLES
    rooms,            \* table rooms: roomId -> row
    residences,       \* table residences: set of rows
    nextResidenceId,  \* serial of residences.id
    bookings,         \* table room_bookings: sequence of rows, id = index
    proc,             \* the requests in flight, one per connection
    requests          \* number of requests accepted so far

vars == <<rooms, residences, nextResidenceId, bookings, proc, requests>>

db == <<rooms, residences, nextResidenceId, bookings>>

-----------------------------------------------------------------------------
(* Bounds of the model *)

NumStudents == 2
NumRooms == 3
MaxCapacity == 2
MaxBookings == 2
MaxRequests == 4
MaxConcRequests == 3
NumProcs == 2
MaxMoveRequests == 5
MaxNewRooms == 1
MaxRoomRequests == 4

-----------------------------------------------------------------------------
(* Values *)

\* SQL NULL / JS null or undefined in a text column or text parameter
NULL == "null"

\* SQL NULL in an integer column (ids are serials, starting at 1)
NoId == 0

Students == 1..NumStudents
RoomIds == 1..NumRooms
HostelIds == {1, 2}
StaffIds == {1}
Procs == 1..NumProcs
BookingIds == 1..MaxBookings

\* hostels: the men's hostels are 'male', the ladies' hostels 'female'
hostels == [h \in HostelIds |-> [id |-> h, gender |-> IF h = 1 THEN "male" ELSE "female"]]

\* students.gender holds 'Male' or 'Female', capitalised as the seed writes it;
\* here every third student is a woman
students == [s \in Students |-> [id |-> s, gender |-> IF s % 3 = 0 THEN "Female" ELSE "Male"]]

\* the rooms there are: every third room is in the ladies' hostel, and the
\* capacities POST /rooms gave them run through 1..MaxCapacity
SeedHostelOf(r) == IF r % 3 = 0 THEN 2 ELSE 1

SeedCapacityOf(r) == ((r - 1) % MaxCapacity) + 1

\* String.prototype.toLowerCase on the gender values in use
toLowerCase(s) ==
    CASE s = "Male" -> "male"
      [] s = "Female" -> "female"
      [] OTHER -> s

Max(a, b) == IF a >= b THEN a ELSE b

-----------------------------------------------------------------------------
(* Queries: a select returns an array of rows; `const [x] = ...` takes the *)
(* first row, and x is undefined when the array is empty.                   *)

None == <<>>

SelectRoom(roomId) == IF roomId \in DOMAIN rooms THEN <<rooms[roomId]>> ELSE None

RECURSIVE SetToSeqById(_)
SetToSeqById(S) ==
    IF S = {} THEN <<>>
    ELSE LET first == CHOOSE x \in S : \A y \in S : x.id <= y.id
         IN <<first>> \o SetToSeqById(S \ {first})

SelectResidencesOf(studentId) ==
    SetToSeqById({x \in residences : x.studentId = studentId})

SelectBooking(id) == IF id \in DOMAIN bookings THEN <<bookings[id]>> ELSE None

SelectStudent(studentId) == IF studentId \in DOMAIN students THEN <<students[studentId]>> ELSE None

SelectHostel(hostelId) == IF hostelId \in DOMAIN hostels THEN <<hostels[hostelId]>> ELSE None

First(rows) == IF rows = None THEN None ELSE <<rows[1]>>

StudentIdTaken_Unconstrained(studentId) == FALSE

\* the constraint residences_student_id_unique
StudentIdTaken(studentId) == \E x \in residences : x.studentId = studentId

\* insert into residences: a unique violation makes the statement throw
InsertResidence(values) ==
    /\ ~StudentIdTaken(values.studentId)
    /\ residences' = residences \cup {[values EXCEPT !.id = nextResidenceId]}
    /\ nextResidenceId' = nextResidenceId + 1

-----------------------------------------------------------------------------
(* Requests *)

Idle == [pc |-> "idle", op |-> "none", req |-> None, room |-> None, cur |-> None,
         booking |-> None, code |-> 0, error |-> NULL]

Quiet(p) == proc[p].pc \in {"idle", "done"}

\* p accepts a request: the locals of the previous one are gone
Accept(op, req) == [Idle EXCEPT !.op = op, !.req = req]

\* res.status(code).json(...)
Respond(st, code, error) == [st EXCEPT !.pc = "done", !.code = code, !.error = error]

Goto(st, pc) == [st EXCEPT !.pc = pc]

Init ==
    /\ rooms = [r \in RoomIds |-> [id |-> r, hostelId |-> SeedHostelOf(r),
                                   capacity |-> SeedCapacityOf(r),
                                   currentOccupancy |-> 0, status |-> "available"]]
    /\ residences = {}
    /\ nextResidenceId = 1
    /\ bookings = <<>>
    /\ proc = [p \in Procs |-> Idle]
    /\ requests = 0

-----------------------------------------------------------------------------
(* POST /rooms/:roomId/allocate *)

RoomIsFull_OverCapacity(room) == room.currentOccupancy > room.capacity

\* (room.currentOccupancy ?? 0) >= (room.capacity ?? 2); both columns are set
RoomIsFull(room) == room.currentOccupancy >= room.capacity

\* select the room; 404 when absent, 400 when occupancy >= capacity
AllocSelectRoom(p, roomId, studentId, bedNumber) ==
    LET st == Accept("allocate", [roomId |-> roomId, studentId |-> studentId, bedNumber |-> bedNumber])
        room == SelectRoom(roomId)
    IN /\ proc' = [proc EXCEPT ![p] =
                IF room = None THEN Respond(st, 404, "Room not found")
                ELSE IF RoomIsFull(room[1])
                     THEN Respond([st EXCEPT !.room = room], 400, "Room is full")
                     ELSE Goto([st EXCEPT !.room = room], "alloc_existing")]
       /\ UNCHANGED db

\* select the student's residence; 400 when there is one
AllocSelectExisting(p) ==
    /\ proc[p].pc = "alloc_existing"
    /\ LET existing == First(SelectResidencesOf(proc[p].req.studentId))
       IN proc' = [proc EXCEPT ![p] =
                IF existing # None
                THEN Respond([@ EXCEPT !.cur = existing], 400, "Student already has a residence allocated")
                ELSE Goto(@, "alloc_student")]
    /\ UNCHANGED <<db, requests>>

GenderDiffers_Never(student, hostel) == FALSE

\* student.gender?.toLowerCase() !== hostel.gender
GenderDiffers(student, hostel) == toLowerCase(student.gender) # hostel.gender

\* select the student and the room's hostel; compare the genders.
\* students and hostels do not change, so the two selects are one step.
AllocCheckGender(p) ==
    /\ proc[p].pc = "alloc_student"
    /\ LET student == SelectStudent(proc[p].req.studentId)
           hostel == SelectHostel(proc[p].room[1].hostelId)
       IN proc' = [proc EXCEPT ![p] =
                IF student = None THEN Respond(@, 404, "Student not found")
                ELSE IF hostel = None THEN Respond(@, 404, "Hostel not found")
                ELSE IF GenderDiffers(student[1], hostel[1])
                     THEN Respond(@, 400, "Gender mismatch")
                     ELSE Goto(@, "alloc_insert")]
    /\ UNCHANGED <<db, requests>>

\* the bed of a new allocation
DefaultBed(bedNumber, room) ==
    IF bedNumber # NULL THEN bedNumber
    ELSE IF room.currentOccupancy = 0 THEN "Bed A" ELSE "Bed B"

\* insert the residence; a unique violation is caught: 500
AllocInsert(p) ==
    /\ proc[p].pc = "alloc_insert"
    /\ LET room == proc[p].room[1]
           values == [id |-> NoId,
                      studentId |-> proc[p].req.studentId,
                      residenceType |-> "on-campus",
                      hostelId |-> room.hostelId,
                      roomId |-> proc[p].req.roomId,
                      bedNumber |-> DefaultBed(proc[p].req.bedNumber, room),
                      offCampusHostelName |-> NULL,
                      offCampusRoomNumber |-> NULL,
                      offCampusArea |-> NULL]
       IN IF StudentIdTaken(values.studentId)
          THEN /\ proc' = [proc EXCEPT ![p] = Respond(@, 500, "Internal server error")]
               /\ UNCHANGED <<residences, nextResidenceId>>
          ELSE /\ InsertResidence(values)
               /\ proc' = [proc EXCEPT ![p] = Goto(@, "alloc_update")]
    /\ UNCHANGED <<rooms, bookings, requests>>

\* write the room's occupancy and status from the row read at the start
\* the row after the allocation's update, computed from the room it selected
AllocatedRoom(row, room) ==
    [row EXCEPT !.currentOccupancy = room.currentOccupancy + 1,
                !.status = IF room.currentOccupancy + 1 >= room.capacity
                           THEN "full" ELSE "available"]

AllocUpdateRoom(p) ==
    /\ proc[p].pc = "alloc_update"
    /\ LET room == proc[p].room[1]
           roomId == proc[p].req.roomId
       IN rooms' = IF roomId \in DOMAIN rooms
                   THEN [rooms EXCEPT ![roomId] = AllocatedRoom(@, room)]
                   ELSE rooms
    /\ proc' = [proc EXCEPT ![p] = Respond(@, 201, NULL)]
    /\ UNCHANGED <<residences, nextResidenceId, bookings, requests>>

-----------------------------------------------------------------------------
(* DELETE /rooms/:roomId/deallocate/:studentId *)

\* delete the residence of the student in the room; 404 when no row matched
DeallocDelete(p, roomId, studentId) ==
    LET st == Accept("deallocate", [roomId |-> roomId, studentId |-> studentId])
        deleted == {x \in residences : x.roomId = roomId /\ x.studentId = studentId}
    IN /\ residences' = residences \ deleted
       /\ proc' = [proc EXCEPT ![p] =
                IF deleted = {} THEN Respond(st, 404, "Student not found in this room")
                ELSE Goto([st EXCEPT !.cur = First(SetToSeqById(deleted))], "dealloc_room")]
       /\ UNCHANGED <<rooms, nextResidenceId, bookings>>

DeallocSelectRoom(p) ==
    /\ proc[p].pc = "dealloc_room"
    /\ LET room == SelectRoom(proc[p].req.roomId)
       IN proc' = [proc EXCEPT ![p] =
                IF room = None THEN Respond(@, 200, NULL)
                ELSE Goto([@ EXCEPT !.room = room], "dealloc_update")]
    /\ UNCHANGED <<db, requests>>

\* the row after the deallocation's update, computed from the room it selected
DeallocatedRoom(row, room) ==
    [row EXCEPT !.currentOccupancy = Max(0, room.currentOccupancy - 1),
                !.status = "available"]

DeallocUpdateRoom(p) ==
    /\ proc[p].pc = "dealloc_update"
    /\ LET room == proc[p].room[1]
           roomId == proc[p].req.roomId
       IN rooms' = IF roomId \in DOMAIN rooms
                   THEN [rooms EXCEPT ![roomId] = DeallocatedRoom(@, room)]
                   ELSE rooms
    /\ proc' = [proc EXCEPT ![p] = Respond(@, 200, NULL)]
    /\ UNCHANGED <<residences, nextResidenceId, bookings, requests>>

-----------------------------------------------------------------------------
(* POST /api/residences, PUT and DELETE /api/residences/:studentId *)

\* the location fields of a residence or of a requested target
OnCampus(roomId, bed) ==
    [residenceType |-> "on-campus", hostelId |-> SeedHostelOf(roomId), roomId |-> roomId,
     bedNumber |-> bed, offCampusHostelName |-> NULL, offCampusRoomNumber |-> NULL,
     offCampusArea |-> NULL]

OffCampus ==
    [residenceType |-> "off-campus", hostelId |-> NoId, roomId |-> NoId, bedNumber |-> NULL,
     offCampusHostelName |-> "Richmond Apartments", offCampusRoomNumber |-> "A1",
     offCampusArea |-> "Chemundu"]

Targets == {OnCampus(r, "Bed A") : r \in RoomIds} \cup {OffCampus}

\* a body with residenceType 'on-campus' and no other field
OnCampusNowhere ==
    [residenceType |-> "on-campus", hostelId |-> NoId, roomId |-> NoId, bedNumber |-> NULL,
     offCampusHostelName |-> NULL, offCampusRoomNumber |-> NULL, offCampusArea |-> NULL]

\* the bodies a caller sends to POST /api/residences
ResidenceInputs == Targets \cup {OnCampusNowhere}

\* the row a request body with the fields of target t writes
ResidenceRow(id, studentId, t) ==
    [id |-> id, studentId |-> studentId, residenceType |-> t.residenceType,
     hostelId |-> t.hostelId, roomId |-> t.roomId, bedNumber |-> t.bedNumber,
     offCampusHostelName |-> t.offCampusHostelName,
     offCampusRoomNumber |-> t.offCampusRoomNumber, offCampusArea |-> t.offCampusArea]

\* insert the residence as given (studentId and residenceType are present);
\* no room is read or written
ResCreate(p, studentId, t) ==
    LET st == Accept("resCreate", [studentId |-> studentId, target |-> t])
    IN /\ IF StudentIdTaken(studentId)
          THEN /\ proc' = [proc EXCEPT ![p] = Respond(st, 500, "Internal server error")]
               /\ UNCHANGED <<residences, nextResidenceId>>
          ELSE /\ InsertResidence(ResidenceRow(NoId, studentId, t))
               /\ proc' = [proc EXCEPT ![p] = Respond(st, 201, NULL)]
       /\ UNCHANGED <<rooms, bookings>>

\* update the residence with the body's fields, here the location fields;
\* 404 when no row matched
ResUpdate(p, studentId, t) ==
    LET st == Accept("resUpdate", [studentId |-> studentId, target |-> t])
        hit == {x \in residences : x.studentId = studentId}
    IN /\ residences' = (residences \ hit) \cup {ResidenceRow(x.id, x.studentId, t) : x \in hit}
       /\ proc' = [proc EXCEPT ![p] =
                IF hit = {} THEN Respond(st, 404, "Residence not found")
                ELSE Respond(st, 200, NULL)]
       /\ UNCHANGED <<rooms, nextResidenceId, bookings>>

\* delete the residence; 404 when no row matched
ResDelete(p, studentId) ==
    LET st == Accept("resDelete", [studentId |-> studentId])
        hit == {x \in residences : x.studentId = studentId}
    IN /\ residences' = residences \ hit
       /\ proc' = [proc EXCEPT ![p] =
                IF hit = {} THEN Respond(st, 404, "Residence not found")
                ELSE Respond(st, 200, NULL)]
       /\ UNCHANGED <<rooms, nextResidenceId, bookings>>

-----------------------------------------------------------------------------
(* POST /api/hostels/bookings and POST /api/residences/bookings *)

BookingRow(studentId, requestType, currentRoomId, t) ==
    [id |-> Len(bookings) + 1, studentId |-> studentId,
     requestType |-> IF requestType = NULL THEN "new" ELSE requestType,
     currentRoomId |-> currentRoomId,
     requestedHostelId |-> t.hostelId, requestedRoomId |-> t.roomId,
     requestedBed |-> t.bedNumber,
     requestedOffCampusHostel |-> t.offCampusHostelName,
     requestedOffCampusRoom |-> t.offCampusRoomNumber,
     requestedOffCampusArea |-> t.offCampusArea,
     status |-> "pending", approvedBy |-> NoId]

\* the bookings there will be once the submissions in flight have inserted theirs
BookingsClaimed == Len(bookings) + Cardinality({q \in Procs : proc[q].pc = "submit_insert"})

\* a transfer reads the student's residence first; any other request inserts at once
SubmitBegin(p, studentId, requestType, t) ==
    LET st == Accept("submit", [studentId |-> studentId, requestType |-> requestType, target |-> t])
    IN /\ BookingsClaimed < MaxBookings
       /\ IF requestType = "transfer"
          THEN /\ proc' = [proc EXCEPT ![p] =
                      Goto([st EXCEPT !.cur = First(SelectResidencesOf(studentId))], "submit_insert")]
               /\ UNCHANGED bookings
          ELSE /\ bookings' = Append(bookings, BookingRow(studentId, requestType, NoId, t))
               /\ proc' = [proc EXCEPT ![p] = Respond(st, 201, NULL)]
       /\ UNCHANGED <<rooms, residences, nextResidenceId>>

\* currentRoomId = currentResidence?.roomId ?? null
SubmitInsert(p) ==
    /\ proc[p].pc = "submit_insert"
    /\ LET cur == proc[p].cur
           currentRoomId == IF cur = None THEN NoId ELSE cur[1].roomId
       IN bookings' = Append(bookings, BookingRow(proc[p].req.studentId, proc[p].req.requestType,
                                                    currentRoomId, proc[p].req.target))
    /\ proc' = [proc EXCEPT ![p] = Respond(@, 201, NULL)]
    /\ UNCHANGED <<rooms, residences, nextResidenceId, requests>>

\* the residences router inserts with currentRoomId null whatever the request type
ResSubmit(p, studentId, requestType, t) ==
    LET st == Accept("resSubmit", [studentId |-> studentId, requestType |-> requestType, target |-> t])
    IN /\ BookingsClaimed < MaxBookings
       /\ bookings' = Append(bookings, BookingRow(studentId, requestType, NoId, t))
       /\ proc' = [proc EXCEPT ![p] = Respond(st, 201, NULL)]
       /\ UNCHANGED <<rooms, residences, nextResidenceId>>

-----------------------------------------------------------------------------
(* PUT /api/hostels/bookings/:id/approve *)

\* validate the status, select the booking; 400, 404
ApproveSelectBooking(p, id, status, approvedBy) ==
    LET st == Accept("approve", [id |-> id, status |-> status, approvedBy |-> approvedBy])
        booking == SelectBooking(id)
    IN /\ proc' = [proc EXCEPT ![p] =
                IF status \notin {"approved", "rejected"}
                THEN Respond(st, 400, "status must be approved or rejected")
                ELSE IF booking = None THEN Respond(st, 404, "Booking not found")
                ELSE Goto([st EXCEPT !.booking = booking], "approve_update")]
       /\ UNCHANGED db

MovesResidence_Always(status) == TRUE

\* if (status === 'approved') { ...move the residence... }
MovesResidence(status) == status = "approved"

\* update the booking's status, whatever it was
ApproveUpdateBooking(p) ==
    /\ proc[p].pc = "approve_update"
    /\ LET id == proc[p].req.id
       IN bookings' = IF id \in DOMAIN bookings
                      THEN [bookings EXCEPT ![id] = [@ EXCEPT !.status = proc[p].req.status,
                                                              !.approvedBy = proc[p].req.approvedBy]]
                      ELSE bookings
    /\ proc' = [proc EXCEPT ![p] =
            IF MovesResidence(proc[p].req.status) THEN Goto(@, "approve_current")
            ELSE Respond(@, 200, NULL)]
    /\ UNCHANGED <<rooms, residences, nextResidenceId, requests>>

\* JS truthiness of an integer column
Truthy(n) == n # NoId

\* select the student's residence, then branch on the requested target
ApproveSelectCurrent(p) ==
    /\ proc[p].pc = "approve_current"
    /\ LET booking == proc[p].booking[1]
           cur == First(SelectResidencesOf(booking.studentId))
           hasRoom == cur # None /\ Truthy(cur[1].roomId)
           freeOld == IF Truthy(booking.requestedRoomId)
                      THEN booking.requestType = "transfer" /\ hasRoom
                      ELSE hasRoom
       IN proc' = [proc EXCEPT ![p] =
                Goto([@ EXCEPT !.cur = cur], IF freeOld THEN "approve_oldroom" ELSE "approve_assign")]
    /\ UNCHANGED <<db, requests>>

OldRoomId_Snapshot(p) == proc[p].booking[1].currentRoomId

\* currentResidence.roomId: the room of the residence read by this request
OldRoomId(p) == proc[p].cur[1].roomId

ApproveSelectOldRoom(p) ==
    /\ proc[p].pc = "approve_oldroom"
    /\ LET oldRoom == SelectRoom(OldRoomId(p))
       IN proc' = [proc EXCEPT ![p] =
                IF oldRoom = None THEN Goto(@, "approve_assign")
                ELSE Goto([@ EXCEPT !.room = oldRoom], "approve_freeold")]
    /\ UNCHANGED <<db, requests>>

\* the old room loses one occupant, clamped at 0
ApproveFreeOldRoom(p) ==
    /\ proc[p].pc = "approve_freeold"
    /\ LET oldRoom == proc[p].room[1]
           roomId == OldRoomId(p)
       IN rooms' = IF roomId \in DOMAIN rooms
                   THEN [rooms EXCEPT ![roomId] =
                            [@ EXCEPT !.currentOccupancy = Max(0, oldRoom.currentOccupancy - 1),
                                      !.status = IF oldRoom.currentOccupancy - 1 < oldRoom.capacity
                                                 THEN "available" ELSE oldRoom.status]]
                   ELSE rooms
    /\ proc' = [proc EXCEPT ![p] = Goto(@, "approve_assign")]
    /\ UNCHANGED <<residences, nextResidenceId, bookings, requests>>

WhereStudentId_Any(studentId) == residences

\* .where(eq(residences.studentId, booking.studentId)): the rows the update hits
WhereStudentId(studentId) == {x \in residences : x.studentId = studentId}

\* update (never insert) the student's residence to the requested target
ApproveAssign(p) ==
    /\ proc[p].pc = "approve_assign"
    /\ LET booking == proc[p].booking[1]
           onCampus == Truthy(booking.requestedRoomId)
           t == IF onCampus
                THEN [residenceType |-> "on-campus", hostelId |-> booking.requestedHostelId,
                      roomId |-> booking.requestedRoomId, bedNumber |-> booking.requestedBed,
                      offCampusHostelName |-> NULL, offCampusRoomNumber |-> NULL,
                      offCampusArea |-> NULL]
                ELSE [residenceType |-> "off-campus", hostelId |-> NoId, roomId |-> NoId,
                      bedNumber |-> NULL,
                      offCampusHostelName |-> booking.requestedOffCampusHostel,
                      offCampusRoomNumber |-> booking.requestedOffCampusRoom,
                      offCampusArea |-> booking.requestedOffCampusArea]
           hit == WhereStudentId(booking.studentId)
       IN /\ residences' = (residences \ hit) \cup {ResidenceRow(x.id, x.studentId, t) : x \in hit}
          /\ proc' = [proc EXCEPT ![p] =
                   IF onCampus THEN Goto(@, "approve_newroom") ELSE Respond(@, 200, NULL)]
    /\ UNCHANGED <<rooms, nextResidenceId, bookings, requests>>

ApproveSelectNewRoom(p) ==
    /\ proc[p].pc = "approve_newroom"
    /\ LET newRoom == SelectRoom(proc[p].booking[1].requestedRoomId)
       IN proc' = [proc EXCEPT ![p] =
                IF newRoom = None THEN Respond(@, 200, NULL)
                ELSE Goto([@ EXCEPT !.room = newRoom], "approve_fill")]
    /\ UNCHANGED <<db, requests>>

\* the requested room gains one occupant; its capacity is not compared before
ApproveFillNewRoom(p) ==
    /\ proc[p].pc = "approve_fill"
    /\ LET newRoom == proc[p].room[1]
           roomId == proc[p].booking[1].requestedRoomId
           newOccupancy == newRoom.currentOccupancy + 1
       IN rooms' = IF roomId \in DOMAIN rooms
                   THEN [rooms EXCEPT ![roomId] =
                            [@ EXCEPT !.currentOccupancy = newOccupancy,
                                      !.status = IF newOccupancy >= newRoom.capacity
                                                 THEN "full" ELSE "available"]]
                   ELSE rooms
    /\ proc' = [proc EXCEPT ![p] = Respond(@, 200, NULL)]
    /\ UNCHANGED <<residences, nextResidenceId, bookings, requests>>

-----------------------------------------------------------------------------
(* PUT /api/residences/bookings/:id/approve *)

\* any non-empty status is written; the residence and the rooms are not touched
ResApprove(p, id, status, approvedBy) ==
    LET st == Accept("resApprove", [id |-> id, status |-> status, approvedBy |-> approvedBy])
    IN /\ bookings' = IF id \in DOMAIN bookings
                      THEN [bookings EXCEPT ![id] = [@ EXCEPT !.status = status,
                                                              !.approvedBy = approvedBy]]
                      ELSE bookings
       /\ proc' = [proc EXCEPT ![p] =
                IF id \in DOMAIN bookings THEN Respond(st, 200, NULL)
                ELSE Respond(st, 404, "Room booking not found")]
       /\ UNCHANGED <<rooms, residences, nextResidenceId>>

-----------------------------------------------------------------------------
(* PUT /api/hostels/rooms/:roomId *)

\* update the room with the fields of the body (a record of some of the row's
\* columns); 404 when no row matched.  Nothing is validated and the occupancy
\* is not read.
RoomUpdate(p, roomId, updates) ==
    LET st == Accept("roomUpdate", [roomId |-> roomId, updates |-> updates])
    IN /\ rooms' = IF roomId \in DOMAIN rooms
                   THEN [rooms EXCEPT ![roomId] =
                            [f \in DOMAIN @ |-> IF f \in DOMAIN updates THEN updates[f] ELSE @[f]]]
                   ELSE rooms
       /\ proc' = [proc EXCEPT ![p] =
                IF roomId \in DOMAIN rooms THEN Respond(st, 200, NULL)
                ELSE Respond(st, 404, "Room not found")]
       /\ UNCHANGED <<residences, nextResidenceId, bookings>>

-----------------------------------------------------------------------------
(* POST /api/hostels/rooms *)

\* insert a room with the body's hostel and capacity (capacity ?? 2),
\* currentOccupancy 0 and status 'available'; the capacity is not validated.
\* capacity is <<>> when the body has none, <<c>> otherwise.
RoomCreate(p, hostelId, capacity) ==
    LET st == Accept("roomCreate", [hostelId |-> hostelId, capacity |-> capacity])
        id == Cardinality(DOMAIN rooms) + 1
        room == [id |-> id, hostelId |-> hostelId,
                 capacity |-> IF capacity = None THEN 2 ELSE capacity[1],
                 currentOccupancy |-> 0, status |-> "available"]
    IN /\ Cardinality(DOMAIN rooms) < NumRooms + MaxNewRooms
       /\ rooms' = [r \in DOMAIN rooms \cup {id} |-> IF r = id THEN room ELSE rooms[r]]
       /\ proc' = [proc EXCEPT ![p] = Respond(st, 201, NULL)]
       /\ UNCHANGED <<residences, nextResidenceId, bookings>>

-----------------------------------------------------------------------------

BedInputs == {NULL, "Bed A"}

\* the status a caller sets by hand: the room is taken out of service
RoomStatusInputs == {"maintenance"}

\* the capacities a caller sends when creating a room: none, 0 and 1
CapacityInputs == {None, <<0>>, <<1>>}

\* the bodies a caller sends when updating a room
RoomUpdateInputs == {[status |-> s] : s \in RoomStatusInputs} \cup {[capacity |-> 0]}

RequestTypes == {"new", "transfer"}

\* the statuses a caller sends: the two decisions and one that is neither
StatusInputs == {"approved", "rejected", "cancelled"}

Begin(p) ==
    \/ \E r \in RoomIds, s \in Students, b \in BedInputs : AllocSelectRoom(p, r, s, b)
    \/ \E r \in RoomIds, s \in Students : DeallocDelete(p, r, s)
    \/ \E s \in Students, t \in ResidenceInputs : ResCreate(p, s, t)
    \/ \E s \in Students, t \in Targets : ResUpdate(p, s, t)
    \/ \E s \in Students : ResDelete(p, s)
    \/ \E s \in Students, ty \in RequestTypes, t \in Targets : SubmitBegin(p, s, ty, t)
    \/ \E s \in Students, ty \in RequestTypes, t \in Targets : ResSubmit(p, s, ty, t)
    \/ \E id \in BookingIds, status \in StatusInputs, a \in StaffIds : ApproveSelectBooking(p, id, status, a)
    \/ \E id \in BookingIds, status \in StatusInputs, a \in StaffIds : ResApprove(p, id, status, a)
    \/ \E r \in RoomIds, status \in RoomStatusInputs : RoomUpdate(p, r, [status |-> status])

AllocStep(p) ==
    \/ AllocSelectExisting(p)
    \/ AllocCheckGender(p)
    \/ AllocInsert(p)
    \/ AllocUpdateRoom(p)

DeallocStep(p) ==
    \/ DeallocSelectRoom(p)
    \/ DeallocUpdateRoom(p)

ApproveStep(p) ==
    \/ ApproveUpdateBooking(p)
    \/ ApproveSelectCurrent(p)
    \/ ApproveSelectOldRoom(p)
    \/ ApproveFreeOldRoom(p)
    \/ ApproveAssign(p)
    \/ ApproveSelectNewRoom(p)
    \/ ApproveFillNewRoom(p)

\* the next statement of the request p is serving
Step(p) ==
    \/ AllocStep(p)
    \/ DeallocStep(p)
    \/ SubmitInsert(p)
    \/ ApproveStep(p)

\* one request at a time, on the first connection
Serve ==
    /\ \A p \in Procs : Quiet(p)
    /\ requests < MaxRequests
    /\ requests' = requests + 1
    /\ Begin(1)

Next == Serve \/ \E p \in Procs : Step(p)

Spec == Init /\ [][Next]_vars

\* requests on every connection, interleaved statement by statement
ServeConc ==
    \E p \in Procs :
        /\ Quiet(p)
        /\ requests < MaxConcRequests
        /\ requests' = requests + 1
        /\ Begin(p)

NextConc == ServeConc \/ \E p \in Procs : Step(p)

SpecConc == Init /\ [][NextConc]_vars

\* allocations, deallocations, submissions and decisions of the hostels router,
\* one request at a time
ServeMove ==
    /\ \A p \in Procs : Quiet(p)
    /\ requests < MaxMoveRequests
    /\ requests' = requests + 1
    /\ \/ \E r \in RoomIds, s \in Students : AllocSelectRoom(1, r, s, NULL)
       \/ \E r \in RoomIds, s \in Students : DeallocDelete(1, r, s)
       \/ \E s \in Students, ty \in RequestTypes, t \in Targets : SubmitBegin(1, s, ty, t)
       \/ \E id \in BookingIds, status \in {"approved", "rejected"}, a \in StaffIds :
              ApproveSelectBooking(1, id, status, a)

NextMove == ServeMove \/ \E p \in Procs : Step(p)

SpecMove == Init /\ [][NextMove]_vars

\* the room directory and the direct allocations into it, one request at a time
ServeRooms ==
    /\ \A p \in Procs : Quiet(p)
    /\ requests < MaxRoomRequests
    /\ requests' = requests + 1
    /\ \/ \E h \in HostelIds, c \in CapacityInputs : RoomCreate(1, h, c)
       \/ \E r \in DOMAIN rooms, u \in RoomUpdateInputs : RoomUpdate(1, r, u)
       \/ \E r \in DOMAIN rooms, s \in Students, b \in BedInputs : AllocSelectRoom(1, r, s, b)
       \/ \E r \in DOMAIN rooms, s \in Students : DeallocDelete(1, r, s)

NextRooms == ServeRooms \/ \E p \in Procs : AllocStep(p) \/ DeallocStep(p)

SpecRooms == Init /\ [][NextRooms]_vars

\* one allocation per connection, all for the same student, all in flight together
ServeAllocTwice ==
    \E p \in Procs, r \in RoomIds, s \in Students, b \in BedInputs :
        /\ proc[p].pc = "idle"
        /\ \A q \in Procs : proc[q].op = "allocate" => proc[q].req.studentId = s
        /\ requests' = requests + 1
        /\ AllocSelectRoom(p, r, s, b)

NextAllocTwice == ServeAllocTwice \/ \E p \in Procs : AllocStep(p)

SpecAllocTwice == Init /\ [][NextAllocTwice]_vars

\* one allocation per connection, for distinct students, all in flight together
ServeAllocRace ==
    \E p \in Procs, r \in RoomIds, s \in Students, b \in BedInputs :
        /\ proc[p].pc = "idle"
        /\ \A q \in Procs : proc[q].op = "allocate" => proc[q].req.studentId # s
        /\ requests' = requests + 1
        /\ AllocSelectRoom(p, r, s, b)

NextAllocRace == ServeAllocRace \/ \E p \in Procs : AllocStep(p)

SpecAllocRace == Init /\ [][NextAllocRace]_vars

-----------------------------------------------------------------------------
(* Properties *)

\* no request is between two of its statements
Quiescent == \A p \in Procs : Quiet(p)

Finished(p, op) == proc[p].pc = "done" /\ proc[p].op = op

InFlight(p, op) == proc[p].op = op /\ ~Quiet(p)

OnCampusIn(r) == {x \in residences : x.residenceType = "on-campus" /\ x.roomId = r}

ResidencesOf(s) == {x \in residences : x.studentId = s}

\* C1: between requests, every room has 0 <= currentOccupancy <= capacity.
C1_OccupancyWithinCapacity ==
    Quiescent =>
        \A r \in DOMAIN rooms :
            /\ 0 <= rooms[r].currentOccupancy
            /\ rooms[r].currentOccupancy <= rooms[r].capacity

\* C2: between requests, a room's currentOccupancy is the number of on-campus
\* residences whose roomId is that room.
C2_OccupancyIsResidentCount ==
    Quiescent =>
        \A r \in DOMAIN rooms : rooms[r].currentOccupancy = Cardinality(OnCampusIn(r))

\* C3: in every state, each student has at most one residence row.
C3_OneResidencePerStudent ==
    \A s \in Students : Cardinality(ResidencesOf(s)) <= 1

\* C3 witness: an allocation lost the race for a student who had no residence when
\* the request looked, the insert was refused, and the student has one residence.
C3_Witness ==
    \E p \in Procs :
        /\ Finished(p, "allocate")
        /\ proc[p].code = 500
        /\ Cardinality(ResidencesOf(proc[p].req.studentId)) = 1

\* the student's gender is the gender of the hostel the residence references
GenderMatches(x) ==
    /\ x.hostelId \in DOMAIN hostels
    /\ x.studentId \in DOMAIN students
    /\ toLowerCase(students[x.studentId].gender) = hostels[x.hostelId].gender

\* the student a finished allocation or decision was about
SubjectOf(p) ==
    IF proc[p].op = "allocate" THEN proc[p].req.studentId
    ELSE bookings[proc[p].req.id].studentId

\* C4: after a successful direct allocation or booking approval, the student's
\* on-campus residence is in a hostel of the student's gender.
C4_GenderMatchesHostel ==
    \A p \in Procs :
        (/\ proc[p].pc = "done"
         /\ \/ proc[p].op = "allocate" /\ proc[p].code = 201
            \/ proc[p].op = "approve" /\ proc[p].code = 200 /\ proc[p].req.status = "approved")
        => \A x \in ResidencesOf(SubjectOf(p)) :
               x.residenceType = "on-campus" => GenderMatches(x)

\* C5: a booking's status changes only from pending, and only to approved or rejected.
C5_StatusOnlyLeavesPending ==
    [][\A id \in DOMAIN bookings :
          bookings'[id].status # bookings[id].status
          => /\ bookings[id].status = "pending"
             /\ bookings'[id].status \in {"approved", "rejected"}]_vars

\* the decision p is serving found its booking already decided
DecidingDecided(p) ==
    /\ InFlight(p, "approve")
    /\ proc[p].booking # None
    /\ proc[p].booking[1].status # "pending"

\* C6: a decision on a booking that is not pending changes nothing in the store
\* and does not answer with success.
C6_DecidedBookingIsFinal ==
    [][\A p \in Procs :
          DecidingDecided(p)
          => /\ db' = db
             /\ proc'[p].pc = "done" => proc'[p].code # 200]_vars

\* the allocations of the race all ended, and all were for room r
RaceOver(r) == \A p \in Procs : Finished(p, "allocate") /\ proc[p].req.roomId = r

Eligible(s, r) == toLowerCase(students[s].gender) = hostels[rooms[r].hostelId].gender

\* C7: NumProcs allocations of distinct eligible students into one empty room with
\* capacity C < NumProcs end with exactly C successes, the others refused as full,
\* currentOccupancy = C and C on-campus residences in the room.
C7_RaceFillsRoomExactly ==
    \A r \in DOMAIN rooms :
        (/\ RaceOver(r)
         /\ rooms[r].capacity < NumProcs
         /\ \A p \in Procs : Eligible(proc[p].req.studentId, r))
        => /\ Cardinality({p \in Procs : proc[p].code = 201}) = rooms[r].capacity
           /\ \A p \in Procs : proc[p].code # 201 => proc[p].error = "Room is full"
           /\ rooms[r].currentOccupancy = rooms[r].capacity
           /\ Cardinality(OnCampusIn(r)) = rooms[r].capacity

\* p approved booking id, which it had read as pending
ApprovedPending(p, id) ==
    /\ Finished(p, "approve")
    /\ proc[p].req.id = id
    /\ proc[p].req.status = "approved"
    /\ proc[p].booking # None
    /\ proc[p].booking[1].status = "pending"

\* C8: of two decisions that both read the same booking as pending, at most one
\* answers with success.
C8_OneDecisionWins ==
    \A p, q \in Procs : \A id \in DOMAIN bookings :
        (p # q /\ ApprovedPending(p, id) /\ ApprovedPending(q, id))
        => ~(proc[p].code = 200 /\ proc[q].code = 200)

\* the approval p is serving asks for an on-campus room that is at capacity
ApprovingIntoFullRoom(p) ==
    /\ InFlight(p, "approve")
    /\ proc[p].req.status = "approved"
    /\ proc[p].booking # None
    /\ LET r == proc[p].booking[1].requestedRoomId
       IN /\ r \in DOMAIN rooms
          /\ rooms[r].currentOccupancy >= rooms[r].capacity

\* C9: an approval whose requested room is at capacity changes no room and no
\* residence, and does not answer with success.
C9_FullTargetApprovalIsAtomic ==
    [][\A p \in Procs :
          ApprovingIntoFullRoom(p)
          => /\ rooms' = rooms
             /\ residences' = residences
             /\ proc'[p].pc = "done" => proc'[p].code # 200]_vars

\* the student's residence is at the target booking b asked for
MoveApplied(b) ==
    \E x \in ResidencesOf(b.studentId) :
        IF Truthy(b.requestedRoomId)
        THEN /\ x.residenceType = "on-campus"
             /\ x.roomId = b.requestedRoomId
             /\ x.bedNumber = b.requestedBed
        ELSE /\ x.residenceType = "off-campus"
             /\ x.offCampusHostelName = b.requestedOffCampusHostel
             /\ x.offCampusRoomNumber = b.requestedOffCampusRoom
             /\ x.offCampusArea = b.requestedOffCampusArea

\* C10: when an approval has ended and the booking is recorded as approved, the
\* student's residence is at the requested target.
C10_ApprovedMeansMoved ==
    \A p \in Procs :
        (/\ Finished(p, "approve")
         /\ proc[p].req.status = "approved"
         /\ proc[p].req.id \in DOMAIN bookings
         /\ bookings[proc[p].req.id].status = "approved")
        => MoveApplied(bookings[proc[p].req.id])

-----------------------------------------------------------------------------
(* Contracts of the single operations, with one request served at a time *)

\* this step accepts a request for operation op (in Spec, on connection 1)
Accepts(op) == requests' # requests /\ proc'[1].op = op

\* this step is a statement of the request connection p is serving
StepOf(p) == ~Quiet(p) /\ proc'[p] # proc[p]

\* C11: an allocation into a room whose currentOccupancy equals its capacity is
\* refused with "Room is full", and the room's row (occupancy, status) and the
\* residences are as before.
C11_FullRoomRefusesAllocation ==
    [][\A r \in DOMAIN rooms :
          (/\ Accepts("allocate")
           /\ proc'[1].req.roomId = r
           /\ rooms[r].currentOccupancy = rooms[r].capacity)
          => /\ proc'[1].pc = "done"
             /\ proc'[1].code = 400
             /\ proc'[1].error = "Room is full"
             /\ rooms'[r] = rooms[r]
             /\ residences' = residences]_vars

\* C11 witness: an allocation read its room at capacity and was refused as full,
\* and the room is still as it was read.
C11_Witness ==
    /\ Finished(1, "allocate")
    /\ proc[1].code = 400
    /\ proc[1].error = "Room is full"
    /\ proc[1].room # None
    /\ proc[1].room[1].currentOccupancy = proc[1].room[1].capacity
    /\ rooms[proc[1].req.roomId] = proc[1].room[1]

\* the student's gender, in lower case, is not the gender of the room's hostel
Mismatch(s, r) ==
    /\ s \in DOMAIN students
    /\ r \in DOMAIN rooms
    /\ ~Eligible(s, r)

\* this step belongs to an allocation of a student into a room of a hostel of
\* another gender
AllocatingMismatch ==
    /\ Accepts("allocate") \/ (StepOf(1) /\ proc[1].op = "allocate")
    /\ Mismatch(proc'[1].req.studentId, proc'[1].req.roomId)

\* the refusal the handler's order of checks gives a mismatching student
ExpectedRefusal(s, r) ==
    IF RoomIsFull(rooms[r]) THEN "Room is full"
    ELSE IF StudentIdTaken(s) THEN "Student already has a residence allocated"
    ELSE "Gender mismatch"

\* C12 (as stated): an allocation of a student whose gender differs from the
\* hostel's writes no residence and no room, and ends refused with
\* "Gender mismatch", always.
C12_MismatchAlwaysGenderMismatch ==
    [][AllocatingMismatch
       => /\ residences' = residences
          /\ rooms' = rooms
          /\ proc'[1].pc \notin {"alloc_insert", "alloc_update"}
          /\ proc'[1].pc = "done"
             => proc'[1].code = 400 /\ proc'[1].error = "Gender mismatch"]_vars

\* C12 (amended): an allocation of a student whose gender differs from the
\* hostel's writes no residence and no room and ends refused with 400; the error
\* is "Gender mismatch" when the room has a free bed and the student has no
\* residence, and otherwise the error of the check that comes first.
C12_MismatchIsRefused ==
    [][AllocatingMismatch
       => /\ residences' = residences
          /\ rooms' = rooms
          /\ proc'[1].pc \notin {"alloc_insert", "alloc_update"}
          /\ proc'[1].pc = "done"
             => /\ proc'[1].code = 400
                /\ proc'[1].error = ExpectedRefusal(proc'[1].req.studentId, proc'[1].req.roomId)]_vars

\* C12 witness: a student without a residence asked for a free bed in a hostel of
\* the other gender and was refused for the gender; the room is as it was read.
C12_Witness ==
    /\ Finished(1, "allocate")
    /\ Mismatch(proc[1].req.studentId, proc[1].req.roomId)
    /\ proc[1].code = 400
    /\ proc[1].error = "Gender mismatch"
    /\ ResidencesOf(proc[1].req.studentId) = {}
    /\ rooms[proc[1].req.roomId] = proc[1].room[1]
    /\ ~RoomIsFull(proc[1].room[1])

\* this step belongs to a direct allocation, on campus (POST /rooms/:roomId/allocate,
\* up to its check for a residence) or off campus (POST /api/residences), of a
\* student who has a residence
AllocatingResident ==
    /\ \/ Accepts("allocate")
       \/ StepOf(1) /\ proc[1].pc = "alloc_existing"
       \/ Accepts("resCreate") /\ proc'[1].req.target.residenceType = "off-campus"
    /\ StudentIdTaken(proc'[1].req.studentId)

\* C13: an allocation, on or off campus, of a student who already has a residence
\* is refused with "Student already has a residence allocated", and the residences
\* and the rooms are as before.
C13_ResidentIsRefusedAsResident ==
    [][AllocatingResident
       => /\ residences' = residences
          /\ rooms' = rooms
          /\ proc'[1].pc = "done"
             => /\ proc'[1].code = 400
                /\ proc'[1].error = "Student already has a residence allocated"]_vars

\* C14: no allocation and no approved move succeeds into a room that was in
\* maintenance when the handler read it.
C14_MaintenanceRoomNotAllocated ==
    \A p \in Procs :
        /\ (Finished(p, "allocate") /\ proc[p].code = 201)
           => proc[p].room[1].status # "maintenance"
        /\ (/\ Finished(p, "approve")
            /\ proc[p].code = 200
            /\ proc[p].req.status = "approved"
            /\ proc[p].booking # None
            /\ Truthy(proc[p].booking[1].requestedRoomId)
            /\ proc[p].room # None)
           => proc[p].room[1].status # "maintenance"

\* connection p is deciding 'approved' on a transfer booking to a room R2, for a
\* student it read as resident in another room R1, and R2 has a free bed
MovingRooms(p) ==
    /\ InFlight(p, "approve")
    /\ proc[p].req.status = "approved"
    /\ proc[p].booking # None
    /\ proc[p].booking[1].requestType = "transfer"
    /\ Truthy(proc[p].booking[1].requestedRoomId)
    /\ proc[p].booking[1].requestedRoomId \in DOMAIN rooms
    /\ proc[p].cur # None
    /\ proc[p].cur[1].roomId \in DOMAIN rooms
    /\ proc[p].cur[1].roomId # proc[p].booking[1].requestedRoomId
    /\ ~RoomIsFull(rooms[proc[p].booking[1].requestedRoomId])

\* the rooms other than r are as before
OnlyRoomChanges(r) == \A o \in DOMAIN rooms : o # r => rooms'[o] = rooms[o]

\* C15: the statements of an approval that moves a student from room R1 to a
\* different room R2 with a free bed take exactly 1 from R1's occupancy, add
\* exactly 1 to R2's occupancy and rewrite the residence to R2.
C15_TransferMovesOneOccupant ==
    [][\A p \in Procs :
          (StepOf(p) /\ MovingRooms(p))
          => LET b == proc[p].booking[1]
                 R1 == proc[p].cur[1].roomId
                 R2 == b.requestedRoomId
             IN /\ proc[p].pc = "approve_freeold"
                   => /\ rooms'[R1].currentOccupancy = rooms[R1].currentOccupancy - 1
                      /\ OnlyRoomChanges(R1)
                      /\ residences' = residences
                /\ proc[p].pc = "approve_assign"
                   => /\ rooms' = rooms
                      /\ \E x \in residences :
                            /\ x.studentId = b.studentId
                            /\ residences' = (residences \ {x}) \cup
                                   {ResidenceRow(x.id, x.studentId, OnCampus(R2, b.requestedBed))}
                /\ proc[p].pc = "approve_fill"
                   => /\ rooms'[R2].currentOccupancy = rooms[R2].currentOccupancy + 1
                      /\ OnlyRoomChanges(R2)
                      /\ residences' = residences
                      /\ proc'[p].pc = "done" /\ proc'[p].code = 200
                /\ proc[p].pc \in {"approve_oldroom", "approve_newroom"}
                   => rooms' = rooms /\ residences' = residences
                /\ proc'[p].pc =
                       CASE proc[p].pc = "approve_oldroom" -> "approve_freeold"
                         [] proc[p].pc = "approve_freeold" -> "approve_assign"
                         [] proc[p].pc = "approve_assign" -> "approve_newroom"
                         [] proc[p].pc = "approve_newroom" -> "approve_fill"
                         [] OTHER -> "done"]_vars

\* C16: when a decision 'approved' has answered with success, on either router,
\* the student has a residence at the target the booking asked for.
C16_ApprovalLeavesResidenceAtTarget ==
    \A op \in {"approve", "resApprove"} :
        (/\ Finished(1, op)
         /\ proc[1].req.status = "approved"
         /\ proc[1].code = 200)
        => MoveApplied(bookings[proc[1].req.id])

\* this step belongs to a decision 'rejected', on either router, on booking id,
\* which was pending when the decision began
Rejecting(id) ==
    \/ /\ Accepts("approve") \/ Accepts("resApprove")
       /\ proc'[1].req.status = "rejected"
       /\ proc'[1].req.id = id
       /\ bookings[id].status = "pending"
    \/ /\ StepOf(1)
       /\ proc[1].op = "approve"
       /\ proc[1].req.status = "rejected"
       /\ proc[1].req.id = id
       /\ proc[1].booking[1].status = "pending"

\* C17: a decision 'rejected' on a pending booking writes that booking's status
\* and approver and nothing else: the residences, the rooms and the other
\* bookings are as before, and it answers with success.
C17_RejectionTouchesOnlyTheBooking ==
    [][\A id \in DOMAIN bookings :
          Rejecting(id)
          => /\ rooms' = rooms
             /\ residences' = residences
             /\ nextResidenceId' = nextResidenceId
             /\ DOMAIN bookings' = DOMAIN bookings
             /\ \A j \in DOMAIN bookings : j # id => bookings'[j] = bookings[j]
             /\ bookings'[id] \in {bookings[id],
                                  [bookings[id] EXCEPT !.status = "rejected",
                                                       !.approvedBy = proc'[1].req.approvedBy]}
             /\ proc'[1].pc = "done"
                => proc'[1].code = 200 /\ bookings'[id].status = "rejected"]_vars

\* C17 witness: a decision 'rejected' read its booking as pending and answered
\* with success, the booking is rejected, and a student still has a residence.
C17_Witness ==
    /\ Finished(1, "approve")
    /\ proc[1].req.status = "rejected"
    /\ proc[1].code = 200
    /\ proc[1].booking[1].status = "pending"
    /\ bookings[proc[1].req.id].status = "rejected"
    /\ ResidencesOf(bookings[proc[1].req.id].studentId) # {}

-----------------------------------------------------------------------------
(* Atomicity, with the requests of all connections interleaved *)

\* the student of the allocation p is serving has an on-campus residence in its room
AllocResidenceWritten(p) ==
    \E x \in residences :
        /\ x.studentId = proc[p].req.studentId
        /\ x.residenceType = "on-campus"
        /\ x.roomId = proc[p].req.roomId

\* the room of the allocation p is serving has one occupant more than p read
AllocOccupancyWritten(p) ==
    rooms[proc[p].req.roomId].currentOccupancy = proc[p].room[1].currentOccupancy + 1

\* C18: in no state another request can read has an allocation inserted its
\* residence without the room's occupancy counting it.
C18_AllocationIsAtomic ==
    \A p \in Procs :
        (proc[p].pc = "alloc_update" /\ AllocResidenceWritten(p))
        => AllocOccupancyWritten(p)

-----------------------------------------------------------------------------

\* C19: removing a student's residence (DELETE /api/residences/:studentId, or
\* DELETE /rooms/:roomId/deallocate/:studentId) removes the row and takes
\* exactly 1 from the occupancy of the room it was in; for a student without a
\* residence it answers 404 and changes nothing.
C19_VacateFreesTheBed ==
    [][/\ Accepts("resDelete")
          => LET mine == ResidencesOf(proc'[1].req.studentId)
             IN IF mine = {}
                THEN /\ proc'[1].code = 404
                     /\ db' = db
                ELSE /\ residences' = residences \ mine
                     /\ \A x \in mine :
                           (/\ x.residenceType = "on-campus"
                            /\ x.roomId \in DOMAIN rooms
                            /\ rooms[x.roomId].currentOccupancy >= 1)
                           => rooms'[x.roomId].currentOccupancy =
                                  rooms[x.roomId].currentOccupancy - 1
       /\ Accepts("deallocate")
          => LET mine == ResidencesOf(proc'[1].req.studentId)
             IN IF mine = {}
                THEN /\ proc'[1].code = 404
                     /\ db' = db
                ELSE residences' \in {residences, residences \ mine}
       /\ (StepOf(1) /\ proc[1].pc = "dealloc_update")
          => LET r == proc[1].req.roomId
             IN /\ residences' = residences
                /\ rooms[r].currentOccupancy >= 1
                   => rooms'[r].currentOccupancy = rooms[r].currentOccupancy - 1]_vars

\* the status the occupancy of a room row gives
DerivedStatus(room) == IF room.currentOccupancy >= room.capacity THEN "full" ELSE "available"

\* C20: a statement of an allocation, a deallocation or an approval that writes
\* a room leaves a room in maintenance in maintenance, and gives any other room
\* the status its new occupancy gives.
C20_StatusFollowsOccupancy ==
    [][\A r \in DOMAIN rooms :
          (/\ StepOf(1)
           /\ proc[1].op \in {"allocate", "deallocate", "approve"}
           /\ rooms'[r] # rooms[r])
          => rooms'[r].status = IF rooms[r].status = "maintenance" THEN "maintenance"
                                ELSE DerivedStatus(rooms'[r])]_vars

-----------------------------------------------------------------------------

\* the approval p is serving has read the student's residence, which is in a room,
\* and is about to rewrite it
LeavingRoom(p) ==
    /\ proc[p].pc = "approve_assign"
    /\ proc[p].cur # None
    /\ proc[p].cur[1].residenceType = "on-campus"
    /\ proc[p].cur[1].roomId \in DOMAIN rooms

\* C21: when an approval comes to rewrite the residence of a student who lives
\* in a room whose occupancy was at least 1, to a target elsewhere, it has read
\* that room and taken exactly 1 from its occupancy, whatever the request type
\* and the kind of the target.
C21_ApprovalFreesOldRoom ==
    \A p \in Procs :
        LET R1 == proc[p].cur[1].roomId
        IN (/\ LeavingRoom(p)
            /\ proc[p].booking[1].requestedRoomId # R1
            /\ IF proc[p].room = None THEN rooms[R1].currentOccupancy >= 1
               ELSE proc[p].room[1].currentOccupancy >= 1)
           => /\ proc[p].room # None
              /\ proc[p].room[1].id = R1
              /\ rooms[R1].currentOccupancy = proc[p].room[1].currentOccupancy - 1

\* the room a statement of connection p is about to write, and the change it makes
WritesOccupancy(p, r, delta) ==
    \/ /\ proc[p].pc = "dealloc_update"
       /\ r = proc[p].req.roomId
       /\ delta = -1
    \/ /\ proc[p].pc = "approve_freeold"
       /\ r = proc[p].cur[1].roomId
       /\ delta = -1
    \/ /\ proc[p].pc = "approve_fill"
       /\ r = proc[p].booking[1].requestedRoomId
       /\ delta = 1

\* C22: a statement that would take a room's occupancy below 0 or above its
\* capacity leaves the room as it is and ends the request with an error.
C22_AdjustmentOutOfRangeIsRejected ==
    [][\A p \in Procs : \A r \in DOMAIN rooms : \A delta \in {-1, 1} :
          (/\ StepOf(p)
           /\ WritesOccupancy(p, r, delta)
           /\ \/ rooms[r].currentOccupancy + delta < 0
              \/ rooms[r].currentOccupancy + delta > rooms[r].capacity)
          => /\ rooms' = rooms
             /\ proc'[p].pc = "done"
             /\ proc'[p].code \notin {200, 201}]_vars

-----------------------------------------------------------------------------
(* The room directory *)

\* C23: creating a room with a capacity below 1 is refused and creates no room;
\* otherwise the new room has currentOccupancy 0 and status 'available'; every
\* room has a capacity of at least 1.
C23_RoomCapacityIsPositive ==
    [][/\ Accepts("roomCreate")
          => LET capacity == proc'[1].req.capacity
             IN IF capacity # None /\ capacity[1] < 1
                THEN /\ proc'[1].code = 400
                     /\ rooms' = rooms
                ELSE \E id \in DOMAIN rooms' \ DOMAIN rooms :
                        /\ DOMAIN rooms' = DOMAIN rooms \cup {id}
                        /\ rooms'[id].currentOccupancy = 0
                        /\ rooms'[id].status = "available"
       /\ \A r \in DOMAIN rooms' : rooms'[r].capacity >= 1]_vars

-----------------------------------------------------------------------------
(* Submission *)

\* C24: a submission inserts a booking in status pending whose currentRoomId is
\* the room of the student's residence for a transfer (null when there is none)
\* and null otherwise, and changes no residence and no room.
C24_SubmissionSnapshotsCurrentRoom ==
    [][Len(bookings') = Len(bookings) + 1
       => LET b == bookings'[Len(bookings')]
              live == First(SelectResidencesOf(b.studentId))
          IN /\ b.status = "pending"
             /\ b.currentRoomId = IF b.requestType = "transfer" /\ live # None
                                   THEN live[1].roomId ELSE NoId
             /\ residences' = residences
             /\ rooms' = rooms]_vars

-----------------------------------------------------------------------------
(* Approval and the room recorded at submission *)

\* the approval p is serving is of a transfer booking submitted from room X
\* (booking.currentRoomId), and it read the student's residence in another room
MovedSince(p) ==
    /\ InFlight(p, "approve")
    /\ proc[p].pc \notin {"approve_update", "approve_current"}
    /\ proc[p].req.status = "approved"
    /\ proc[p].booking[1].requestType = "transfer"
    /\ proc[p].booking[1].currentRoomId \in DOMAIN rooms
    /\ proc[p].cur # None
    /\ proc[p].cur[1].roomId \in DOMAIN rooms
    /\ proc[p].cur[1].roomId # proc[p].booking[1].currentRoomId

-----------------------------------------------------------------------------
(* The residence rows *)

\* the row has the fields of its kind and none of the other kind
WellFormed(x) ==
    IF x.residenceType = "on-campus"
    THEN /\ x.hostelId # NoId
         /\ x.roomId # NoId
         /\ x.bedNumber # NULL
         /\ x.offCampusHostelName = NULL
         /\ x.offCampusRoomNumber = NULL
         /\ x.offCampusArea = NULL
    ELSE /\ x.residenceType = "off-campus"
         /\ x.hostelId = NoId
         /\ x.roomId = NoId
         /\ x.bedNumber = NULL

\* C26: in every state every residence is well-formed for its kind.
C26_ResidencesAreWellFormed == \A x \in residences : WellFormed(x)

\* C27: within a room, the on-campus residences have pairwise distinct bed labels.
C27_BedsAreDistinct ==
    \A r \in DOMAIN rooms : \A x, y \in OnCampusIn(r) :
        x # y => x.bedNumber # y.bedNumber

-----------------------------------------------------------------------------
(* Allocations of one student, interleaved *)

\* the allocations into room r that have answered with success
Allocated(r) == {p \in Procs : Finished(p, "allocate") /\ proc[p].code = 201 /\ proc[p].req.roomId = r}

\* C28: when the allocations in flight are all for one student, the student has
\* at most one residence, at most one allocation succeeds, and every room's
\* occupancy is the number of successful allocations into it: an allocation that
\* fails leaves every room as it was.
C28_OneStudentOneAllocation ==
    /\ \A s \in Students : Cardinality(ResidencesOf(s)) <= 1
    /\ Cardinality(UNION {Allocated(r) : r \in DOMAIN rooms}) <= 1
    /\ \A r \in DOMAIN rooms : rooms[r].currentOccupancy = Cardinality(Allocated(r))

\* C28 witness: two allocations of one student into different rooms both found
\* no residence; one succeeded, the other was refused at its insert, and only
\* the winner's room has an occupant.
C28_Witness ==
    \E p, q \in Procs :
        /\ Finished(p, "allocate") /\ proc[p].code = 201
        /\ Finished(q, "allocate") /\ proc[q].code = 500
        /\ proc[p].req.studentId = proc[q].req.studentId
        /\ proc[p].req.roomId # proc[q].req.roomId
        /\ rooms[proc[p].req.roomId].currentOccupancy = 1
        /\ rooms[proc[q].req.roomId].currentOccupancy = 0
        /\ Cardinality(ResidencesOf(proc[p].req.studentId)) = 1

-----------------------------------------------------------------------------
(* Allocation followed by deallocation *)

\* C29: once an allocation of s into r has succeeded, deallocating s from r
\* deletes exactly the residence the allocation inserted and writes back the
\* occupancy and the status the room had when the allocation selected it.
C29_AllocateDeallocateRoundTrip ==
    Finished(1, "allocate") /\ proc[1].code = 201 /\ proc[1].req.roomId \in DOMAIN rooms =>
        LET r == proc[1].req.roomId
            s == proc[1].req.studentId
            before == proc[1].room[1]
            after == DeallocatedRoom(rooms[r], rooms[r])
        IN /\ Cardinality({x \in residences : x.roomId = r /\ x.studentId = s}) = 1
           /\ after.currentOccupancy = before.currentOccupancy
           /\ after.status = before.status

-----------------------------------------------------------------------------
(* What an approval may write *)

\* C30: a statement of an approval changes no residence of a student other
\* than the booking's, no room other than the room of that student's residence
\* and the requested room, and no booking other than the one decided.
C30_ApprovalWritesOnlyItsOwnRows ==
    [][\A p \in Procs :
          StepOf(p) /\ proc[p].op = "approve" =>
              LET booking == proc[p].booking[1]
                  cur == proc[p].cur
              IN /\ {x \in residences' : x.studentId # booking.studentId}
                        = {x \in residences : x.studentId # booking.studentId}
                 /\ \A r \in DOMAIN rooms :
                        rooms'[r] # rooms[r] =>
                            \/ r = booking.requestedRoomId
                            \/ cur # None /\ r = cur[1].roomId
                 /\ DOMAIN bookings' = DOMAIN bookings
                 /\ \A id \in DOMAIN bookings :
                        bookings'[id] # bookings[id] => id = proc[p].req.id]_vars

\* C30 witness: an approved transfer has moved its student between two rooms
\* while another student holds a residence and another booking is pending.
C30_Witness ==
    \E p \in Procs :
        /\ Finished(p, "approve") /\ proc[p].code = 200 /\ proc[p].req.status = "approved"
        /\ proc[p].cur # None
        /\ proc[p].cur[1].roomId \in DOMAIN rooms
        /\ proc[p].booking[1].requestedRoomId \in DOMAIN rooms
        /\ proc[p].cur[1].roomId # proc[p].booking[1].requestedRoomId
        /\ \E x \in residences : /\ x.studentId = proc[p].booking[1].studentId
                                  /\ x.roomId = proc[p].booking[1].requestedRoomId
        /\ \E x \in residences : /\ x.studentId # proc[p].booking[1].studentId
                                  /\ x.residenceType = "on-campus"
        /\ \E id \in DOMAIN bookings : id # proc[p].req.id /\ bookings[id].status = "pending"

=============================================================================
